---- MODULE Spec2Model ----
(***************************************************************************)
(* wTrie (wtrie.h): a prefix tree of wide characters kept in heap nodes    *)
(* that are linked by a first-child pointer and a next-sibling pointer.    *)
(*                                                                         *)
(* The heap is modelled explicitly: a node is an address, the struct is a  *)
(* record, calloc hands out an address that is not live (a fresh one or    *)
(* one that was freed before), free makes an address not live.  A read or  *)
(* write through a pointer to a node that is not live is undefined         *)
(* behaviour: the call then ends with status "ub", its result is any       *)
(* value, and the process is followed no further.                          *)
(***************************************************************************)
EXTENDS Integers, Sequences, FiniteSets, TLC

\* ------------------------------------------------------------------ bounds
\* MaxLen: the longest word passed in; MaxNodes: the nodes the heap holds
\* besides the root; MaxOps: the calls made in one run; MaxTreeCalls: the
\* calls of a run that also calls wTrie_spawn or wTrie_purge; MaxCalls: the
\* calls of a short run
MaxLen == 2
MaxNodes == 4
MaxOps == 5
MaxTreeCalls == 4
MaxCalls == 3

\* ------------------------------------------------------- program constants
NULL == 0
NUL == 0
PoisonByte == 195

WT == 1
Addr == 1..(MaxNodes + 1)
Symbols == {1, 2}
Words == UNION {[1..n -> Symbols] : n \in 1..MaxLen}

\* a wstring argument that is a null pointer (no string holds the terminator
\* as a character, so the value stands for no string)
NoString == <<NUL>>

\* the addresses of payload buffers, and the payload pointers a caller passes
\* as meta: none, or a buffer
Buffers == {MaxNodes + 2, MaxNodes + 3}
Metas == {NULL} \cup Buffers

\* the values a caller passes as meta_sz: none, or sizeof (float)
MetaSizes == {0, 4}

VARIABLES heap, live, freed, bufs, errno, pre, last, nops

vars == <<heap, live, freed, bufs, errno, pre, last, nops>>

\* ----------------------------------------------------------- struct wTrie
Blank == [wc |-> NUL, sibling |-> NULL, child |-> NULL, term |-> FALSE, meta |-> NULL]

Poisoned == [wc |-> PoisonByte, sibling |-> PoisonByte, child |-> PoisonByte,
             term |-> TRUE, meta |-> PoisonByte]

\* the memory of the process: the structs, the live and the freed addresses,
\* the payload buffers the nodes own (allocated for a node or taken over from
\* the caller, and not freed), errno, and the number of allocations that
\* still succeed before calloc returns NULL (more than a call can ask for,
\* unless the call is made with less)
Cur == [h |-> heap, L |-> live, F |-> freed, B |-> bufs, errno |-> errno,
        left |-> Cardinality(Addr)]

SetErr(st, e) == [st EXCEPT !.errno = e]

Min(S) == CHOOSE x \in S : \A y \in S : x <= y

\* the addresses calloc may return for a node: a chunk freed earlier, or the
\* next unused one; NULL when no allocation succeeds any more
calloc(st) ==
    LET unused == Addr \ (st.L \cup st.F)
    IN IF st.left = 0 THEN {NULL}
       ELSE st.F \cup (IF unused = {} THEN {} ELSE {Min(unused)})

\* the addresses calloc may return for a payload buffer: not one a node
\* owns, and not the one the caller holds (meta)
calloc_meta(st, meta) == IF st.left = 0 THEN {NULL} ELSE Buffers \ (st.B \cup {meta})

\* the memory after an allocation that succeeded
Took(st) == [st EXCEPT !.left = @ - 1]

\* the memories wTrie_init may leave: one for every buffer calloc may return
\* when meta_sz asks for one
wTrie_init(st, wtr, wc, term, meta, meta_sz) ==
    IF wtr = NULL
    THEN {SetErr(st, "E_WTRIE_NULLPOINTER")}
    ELSE LET st1 == [st EXCEPT !.h[wtr] = [wc |-> wc, sibling |-> NULL, child |-> NULL,
                                           term |-> term, meta |-> NULL],
                               !.L = @ \cup {wtr},
                               !.F = @ \ {wtr}]
         IN IF meta_sz > 0
            THEN { LET st2 == IF meta # NULL THEN SetErr(st1, "W_WTRIE_METANOTSET") ELSE st1
                   IN IF b = NULL THEN st2
                      ELSE [Took(st2) EXCEPT !.h[wtr].meta = b, !.B = @ \cup {b}]
                   : b \in calloc_meta(st1, meta) }
            ELSE {[st1 EXCEPT !.h[wtr].meta = meta, !.B = @ \cup ({meta} \ {NULL})]}

\* free of the payload, the poison, free of the node
wTrie_discard(st, wtr) ==
    [st EXCEPT !.h[wtr] = Poisoned, !.L = @ \ {wtr}, !.F = @ \cup {wtr},
               !.B = @ \ {st.h[wtr].meta}]

\* ------------------------------------------------------------ wTrie_child
RECURSIVE ChildScan(_, _, _, _, _, _, _)
ChildScan(st, first, child, wch, lsib, out, fuel) ==
    IF child = NULL
    THEN [st |-> st, node |-> NULL, lsib |-> out, status |-> "ok"]
    ELSE IF child \notin st.L
    THEN [st |-> st, node |-> NULL, lsib |-> out, status |-> "ub"]
    ELSE IF fuel = 0
    THEN [st |-> st, node |-> NULL, lsib |-> out, status |-> "hang"]
    ELSE IF st.h[child].wc = wch
    THEN [st |-> st, node |-> child, lsib |-> lsib, status |-> "ok"]
    ELSE ChildScan(st, first, st.h[child].sibling, wch,
                   IF child # first THEN child ELSE lsib, out, fuel - 1)

\* out is the value *lsibling_p holds before the call (it is left alone
\* when nothing matches)
wTrie_child(st, parent, wch, out) ==
    IF parent = NULL
    THEN [st |-> SetErr(st, "E_WTRIE_ORPHAN"), node |-> NULL, lsib |-> out, status |-> "ok"]
    ELSE IF parent \notin st.L
    THEN [st |-> st, node |-> NULL, lsib |-> out, status |-> "ub"]
    ELSE ChildScan(st, st.h[parent].child, st.h[parent].child, wch, NULL, out,
                   Cardinality(Addr) + 1)

\* ------------------------------------------------------------ wTrie_spawn
\* wTrie_spawn without the strict test of lines 241-245: a duplicate is
\* overwritten whatever strict says
wTrie_spawn_strict_overwrites(st, strict, parent, wch, term, meta, meta_sz) ==
    IF parent = NULL
    THEN {[st |-> SetErr(st, "E_WTRIE_ORPHAN"), node |-> NULL, status |-> "ok"]}
    ELSE LET c == wTrie_child(st, parent, wch, NULL) IN
      IF c.status # "ok"
      THEN {[st |-> st, node |-> NULL, status |-> c.status]}
      ELSE IF c.node = NULL
      THEN UNION {
             IF newborn = NULL
             THEN { IF st1.h[parent].child # NULL
                    THEN [st |-> st, node |-> NULL, status |-> "ub"]
                    ELSE [st |-> SetErr(st1, "E_WTRIE_SPAWNFAILED"), node |-> NULL,
                          status |-> "ok"]
                    : st1 \in wTrie_init(st, NULL, wch, term, meta, meta_sz) }
             ELSE { LET st2 == IF st1.h[parent].child # NULL
                               THEN [st1 EXCEPT !.h[newborn].sibling = st1.h[parent].child]
                               ELSE st1
                    IN [st |-> [st2 EXCEPT !.h[parent].child = newborn],
                        node |-> newborn, status |-> "ok"]
                    : st1 \in wTrie_init(Took(st), newborn, wch, term, meta, meta_sz) }
             : newborn \in calloc(st) }
      ELSE {[st |-> [st EXCEPT !.h[c.node].term = term, !.h[c.node].meta = meta,
                               !.B = @ \cup ({meta} \ {NULL})],
             node |-> c.node, status |-> "ok"]}

\* wTrie_spawn that never overwrites: a non-strict call pushes a new node
\* even when the symbol has a child
wTrie_spawn_pushes(st, strict, parent, wch, term, meta, meta_sz) ==
    IF parent = NULL
    THEN {[st |-> SetErr(st, "E_WTRIE_ORPHAN"), node |-> NULL, status |-> "ok"]}
    ELSE LET c == wTrie_child(st, parent, wch, NULL) IN
      IF c.status # "ok"
      THEN {[st |-> st, node |-> NULL, status |-> c.status]}
      ELSE IF c.node = NULL \/ ~strict
      THEN UNION {
             IF newborn = NULL
             THEN { IF st1.h[parent].child # NULL
                    THEN [st |-> st, node |-> NULL, status |-> "ub"]
                    ELSE [st |-> SetErr(st1, "E_WTRIE_SPAWNFAILED"), node |-> NULL,
                          status |-> "ok"]
                    : st1 \in wTrie_init(st, NULL, wch, term, meta, meta_sz) }
             ELSE { LET st2 == IF st1.h[parent].child # NULL
                               THEN [st1 EXCEPT !.h[newborn].sibling = st1.h[parent].child]
                               ELSE st1
                    IN [st |-> [st2 EXCEPT !.h[parent].child = newborn],
                        node |-> newborn, status |-> "ok"]
                    : st1 \in wTrie_init(Took(st), newborn, wch, term, meta, meta_sz) }
             : newborn \in calloc(st) }
      ELSE IF strict
      THEN {[st |-> SetErr(st, "E_WTRIE_DUPCHILD"), node |-> NULL, status |-> "ok"]}
      ELSE {[st |-> [st EXCEPT !.h[c.node].term = term, !.h[c.node].meta = meta,
                               !.B = @ \cup ({meta} \ {NULL})],
             node |-> c.node, status |-> "ok"]}

\* when calloc returns NULL, wTrie_init (NULL, ...) only sets errno (line 108)
\* and line 236 writes newborn->sibling through the null pointer if the
\* parent has a child
wTrie_spawn(st, strict, parent, wch, term, meta, meta_sz) ==
    IF parent = NULL
    THEN {[st |-> SetErr(st, "E_WTRIE_ORPHAN"), node |-> NULL, status |-> "ok"]}
    ELSE LET c == wTrie_child(st, parent, wch, NULL) IN
      IF c.status # "ok"
      THEN {[st |-> st, node |-> NULL, status |-> c.status]}
      ELSE IF c.node = NULL
      THEN UNION {
             IF newborn = NULL
             THEN { IF st1.h[parent].child # NULL
                    THEN [st |-> st, node |-> NULL, status |-> "ub"]
                    ELSE [st |-> SetErr(st1, "E_WTRIE_SPAWNFAILED"), node |-> NULL,
                          status |-> "ok"]
                    : st1 \in wTrie_init(st, NULL, wch, term, meta, meta_sz) }
             ELSE { LET st2 == IF st1.h[parent].child # NULL
                               THEN [st1 EXCEPT !.h[newborn].sibling = st1.h[parent].child]
                               ELSE st1
                    IN [st |-> [st2 EXCEPT !.h[parent].child = newborn],
                        node |-> newborn, status |-> "ok"]
                    : st1 \in wTrie_init(Took(st), newborn, wch, term, meta, meta_sz) }
             : newborn \in calloc(st) }
      ELSE IF strict
      THEN {[st |-> SetErr(st, "E_WTRIE_DUPCHILD"), node |-> NULL, status |-> "ok"]}
      ELSE {[st |-> [st EXCEPT !.h[c.node].term = term, !.h[c.node].meta = meta,
                               !.B = @ \cup ({meta} \ {NULL})],
             node |-> c.node, status |-> "ok"]}

\* ---------------------------------------------------------- wTrie_addword
RECURSIVE wTrie_addword(_, _, _)
wTrie_addword(st, wtr, wstring) ==
    IF wtr = NULL \/ wstring = NoString
    THEN {[st |-> SetErr(st, "E_WTRIE_NULLPOINTER"), node |-> NULL, status |-> "ok"]}
    ELSE IF wstring = <<>>
    THEN {[st |-> SetErr(st, "E_WTRIE_EMPTYWORD"), node |-> NULL, status |-> "ok"]}
    ELSE IF Len(wstring) > 1
    THEN UNION { IF r.status # "ok" THEN {r}
                 ELSE wTrie_addword(r.st, r.node, Tail(wstring))
                 : r \in wTrie_spawn(st, FALSE, wtr, Head(wstring), FALSE, NULL, 0) }
    ELSE wTrie_spawn(st, FALSE, wtr, Head(wstring), TRUE, NULL, 0)

\* wTrie_addnword without the test of n in the precondition of line 342
RECURSIVE wTrie_addnword_anycount(_, _, _, _)
wTrie_addnword_anycount(st, wtr, wstring, n) ==
    IF wtr = NULL \/ wstring = NoString
    THEN {[st |-> SetErr(st, "E_WTRIE_NULLPOINTER"), node |-> NULL, status |-> "ok"]}
    ELSE IF wstring = <<>>
    THEN {[st |-> SetErr(st, "E_WTRIE_EMPTYWORD"), node |-> NULL, status |-> "ok"]}
    ELSE IF Len(wstring) > 1 /\ n > 1
    THEN UNION { IF r.status # "ok" THEN {r}
                 ELSE wTrie_addnword_anycount(r.st, r.node, Tail(wstring), n - 1)
                 : r \in wTrie_spawn(st, FALSE, wtr, Head(wstring), FALSE, NULL, 0) }
    ELSE wTrie_spawn(st, FALSE, wtr, Head(wstring), TRUE, NULL, 0)

RECURSIVE wTrie_addnword(_, _, _, _)
wTrie_addnword(st, wtr, wstring, n) ==
    IF wtr = NULL \/ wstring = NoString
    THEN {[st |-> SetErr(st, "E_WTRIE_NULLPOINTER"), node |-> NULL, status |-> "ok"]}
    ELSE IF wstring = <<>> \/ n < 1
    THEN {[st |-> SetErr(st, "E_WTRIE_EMPTYWORD"), node |-> NULL, status |-> "ok"]}
    ELSE IF Len(wstring) > 1 /\ n > 1
    THEN UNION { IF r.status # "ok" THEN {r}
                 ELSE wTrie_addnword(r.st, r.node, Tail(wstring), n - 1)
                 : r \in wTrie_spawn(st, FALSE, wtr, Head(wstring), FALSE, NULL, 0) }
    ELSE wTrie_spawn(st, FALSE, wtr, Head(wstring), TRUE, NULL, 0)

\* --------------------------------------------------------- wTrie_findword
RECURSIVE wTrie_findword(_, _, _)
wTrie_findword(st, wtr, wstring) ==
    IF wtr = NULL
    THEN [st |-> SetErr(st, "E_WTRIE_NULLPOINTER"), node |-> NULL, status |-> "ok"]
    ELSE IF wstring = <<>>
    THEN [st |-> SetErr(st, "E_WTRIE_EMPTYWORD"), node |-> NULL, status |-> "ok"]
    ELSE LET c == wTrie_child(st, wtr, Head(wstring), NULL) IN
      IF c.status # "ok"
      THEN [st |-> st, node |-> NULL, status |-> c.status]
      ELSE IF c.node # NULL /\ st.h[c.node].term /\ Len(wstring) = 1
      THEN [st |-> st, node |-> c.node, status |-> "ok"]
      ELSE IF c.node # NULL /\ Len(wstring) > 1
      THEN wTrie_findword(st, c.node, Tail(wstring))
      ELSE [st |-> SetErr(st, "I_WTRIE_NOSUCHWORD"), node |-> NULL, status |-> "ok"]

\* ----------------------------------------------------- wTrie_findword_rel
\* parent and lsib are the values *parent_p and *lsibling_p hold before the
\* call; the record returned holds their values after it
RECURSIVE wTrie_findword_rel(_, _, _, _, _)
wTrie_findword_rel(st, wtr, wstring, parent, lsib) ==
    IF wtr = NULL
    THEN [st |-> SetErr(st, "E_WTRIE_NULLPOINTER"), node |-> NULL, parent |-> parent,
          lsib |-> lsib, status |-> "ok"]
    ELSE IF wstring = <<>>
    THEN [st |-> SetErr(st, "E_WTRIE_EMPTYWORD"), node |-> NULL, parent |-> parent,
          lsib |-> lsib, status |-> "ok"]
    ELSE LET c == wTrie_child(st, wtr, Head(wstring), lsib)
             ls == IF Len(wstring) = 1 THEN c.lsib ELSE lsib
             nosuch == [st |-> SetErr(st, "I_WTRIE_NOSUCHWORD"), node |-> NULL,
                        parent |-> parent, lsib |-> ls, status |-> "ok"]
         IN
      IF c.status # "ok"
      THEN [st |-> st, node |-> NULL, parent |-> parent, lsib |-> lsib,
            status |-> c.status]
      ELSE IF c.node = NULL
      THEN nosuch
      ELSE IF st.h[c.node].term /\ Len(wstring) = 1
      THEN [st |-> st, node |-> c.node, parent |-> parent, lsib |-> ls, status |-> "ok"]
      ELSE IF Len(wstring) = 1
      THEN nosuch
      ELSE IF Len(wstring) = 2
      THEN LET mb == wTrie_findword_rel(st, c.node, Tail(wstring), c.node, NULL) IN
           IF mb.status # "ok"
           THEN [st |-> st, node |-> NULL, parent |-> parent, lsib |-> lsib,
                 status |-> mb.status]
           ELSE IF mb.node # NULL
           THEN [st |-> mb.st, node |-> mb.node, parent |-> mb.parent,
                 lsib |-> mb.lsib, status |-> "ok"]
           ELSE [nosuch EXCEPT !.st = SetErr(mb.st, "I_WTRIE_NOSUCHWORD")]
      ELSE wTrie_findword_rel(st, c.node, Tail(wstring), parent, lsib)

\* -------------------------------------------------------------- wTrie_rOK
\* depth is the number of nested calls still allowed: a chain of links longer
\* than the heap has nodes is a cycle, on which the recursion never returns
RECURSIVE rOK(_, _, _)
rOK(st, wtr, depth) ==
    IF wtr = NULL
    THEN [val |-> 0, status |-> "ok"]
    ELSE IF wtr \notin st.L
    THEN [val |-> 0, status |-> "ub"]
    ELSE IF depth = 0
    THEN [val |-> 0, status |-> "hang"]
    ELSE LET s == IF st.h[wtr].sibling # NULL
                  THEN rOK(st, st.h[wtr].sibling, depth - 1)
                  ELSE [val |-> 1, status |-> "ok"]
         IN IF s.status # "ok" \/ s.val = 0 THEN s
            ELSE IF st.h[wtr].child # NULL
            THEN rOK(st, st.h[wtr].child, depth - 1)
            ELSE [val |-> 1, status |-> "ok"]

\* the check as it would be if an absent reference passed it
wTrie_rOK_absent_passes(st, wtr) ==
    IF wtr = NULL THEN [val |-> 1, status |-> "ok"]
    ELSE rOK(st, wtr, Cardinality(Addr) + 1)

wTrie_rOK(st, wtr) == rOK(st, wtr, Cardinality(Addr) + 1)

\* ------------------------------------------------------------ wTrie_purge
\* the precondition of line 266 tests the address of the function wTrie_rOK,
\* which is never null: nothing is checked
RECURSIVE wTrie_purge(_, _)
wTrie_purge(st, wtr) ==
    IF wtr \notin st.L
    THEN [st |-> st, status |-> "ub"]
    ELSE IF st.h[wtr].meta # NULL /\ st.h[wtr].meta \notin st.B
    THEN [st |-> st, status |-> "ub"]
    ELSE LET sib == st.h[wtr].sibling
             child == st.h[wtr].child
             st1 == wTrie_discard(st, wtr)
             r2 == IF sib # NULL THEN wTrie_purge(st1, sib)
                   ELSE [st |-> st1, status |-> "ok"]
         IN IF r2.status # "ok" THEN r2
            ELSE IF child # NULL THEN wTrie_purge(r2.st, child)
            ELSE r2

\* --------------------------------------------------------- wTrie_collapse
wTrie_collapse(st, parent, wch) ==
    IF parent = NULL
    THEN [st |-> SetErr(st, "E_WTRIE_ORPHAN"), ret |-> 0, status |-> "ok"]
    ELSE LET c == wTrie_child(st, parent, wch, NULL) IN
      IF c.status # "ok"
      THEN [st |-> st, ret |-> 0, status |-> c.status]
      ELSE IF c.node = NULL
      THEN [st |-> SetErr(st, "E_WTRIE_NOSUCHNODE"), ret |-> 0, status |-> "ok"]
      ELSE LET child == c.node
               st1 == IF st.h[child].sibling # NULL
                      THEN IF c.lsib # NULL
                           THEN [st EXCEPT !.h[c.lsib].sibling = st.h[child].sibling]
                           ELSE [st EXCEPT !.h[parent].child = st.h[child].sibling]
                      ELSE st
               st2 == [st1 EXCEPT !.h[child].sibling = NULL]
               p == wTrie_purge(st2, child)
           IN [st |-> p.st, ret |-> 1, status |-> p.status]

\* ----------------------------------------------------- wTrie_hasmultichild
wTrie_hasmultichild(st, wtr) ==
    IF wtr = NULL
    THEN [st |-> SetErr(st, "E_WTRIE_NULLPOINTER"), val |-> FALSE, status |-> "ok"]
    ELSE IF wtr \notin st.L
    THEN [st |-> st, val |-> FALSE, status |-> "ub"]
    ELSE IF st.h[wtr].child = NULL
    THEN [st |-> st, val |-> FALSE, status |-> "ok"]
    ELSE IF st.h[wtr].child \notin st.L
    THEN [st |-> st, val |-> FALSE, status |-> "ub"]
    ELSE [st |-> st, val |-> st.h[st.h[wtr].child].sibling # NULL, status |-> "ok"]

\* ------------------------------------------------------------- wTrie_leaf
\* one pass of the do-while loop of lines 460-489; i counts from 0 as in the
\* code, wstring[Len] is the terminator and a read past it is out of bounds
RECURSIVE LeafLoop(_, _, _, _, _, _, _)
LeafLoop(st, wstring, endnode, node, i, leaf, parent) ==
    LET fin == (node = endnode)
        wch == IF i < Len(wstring) THEN wstring[i + 1] ELSE NUL
        c == wTrie_child(st, node, wch, NULL)
    IN IF i > Len(wstring) \/ c.status # "ok"
       THEN [st |-> st, leaf |-> NULL, parent |-> NULL, status |-> "ub"]
       ELSE IF ~fin
       THEN LET m == wTrie_hasmultichild(c.st, c.node) IN
            IF m.status # "ok"
            THEN [st |-> st, leaf |-> NULL, parent |-> NULL, status |-> m.status]
            ELSE IF ~m.val
            THEN LeafLoop(m.st, wstring, endnode, c.node, i + 1,
                          IF leaf = NULL THEN c.node ELSE leaf,
                          IF parent = NULL THEN node ELSE parent)
            ELSE LeafLoop(m.st, wstring, endnode, c.node, i + 1, NULL, NULL)
       ELSE IF c.st.h[node].child # NULL
       THEN [st |-> c.st, leaf |-> NULL, parent |-> NULL, status |-> "ok"]
       ELSE [st |-> c.st, leaf |-> leaf, parent |-> parent, status |-> "ok"]

wTrie_leaf(st, wtr, wstring) ==
    IF wtr = NULL
    THEN [st |-> SetErr(st, "E_WTRIE_NULLPOINTER"), leaf |-> NULL, parent |-> NULL,
          status |-> "ok"]
    ELSE IF wstring = <<>>
    THEN [st |-> SetErr(st, "E_WTRIE_EMPTYWORD"), leaf |-> NULL, parent |-> NULL,
          status |-> "ok"]
    ELSE LET f == wTrie_findword(st, wtr, wstring) IN
      IF f.status # "ok"
      THEN [st |-> st, leaf |-> NULL, parent |-> NULL, status |-> f.status]
      ELSE IF f.node = NULL
      THEN [st |-> SetErr(f.st, "E_WTRIE_NOSUCHWORD"), leaf |-> NULL, parent |-> NULL,
            status |-> "ok"]
      ELSE LeafLoop(f.st, wstring, f.node, wtr, 0, NULL, NULL)

\* ----------------------------------------------------------- wTrie_rmword
wTrie_rmword(st, wtr, wstring) ==
    LET f == wTrie_findword(st, wtr, wstring) IN
    IF f.status # "ok"
    THEN [st |-> st, ret |-> 0, status |-> f.status]
    ELSE IF f.node = NULL
    THEN [st |-> SetErr(f.st, "E_WTRIE_NOSUCHWORD"), ret |-> 0, status |-> "ok"]
    ELSE LET endnode == f.node
             l == wTrie_leaf(f.st, wtr, wstring)
         IN IF l.status # "ok"
            THEN [st |-> st, ret |-> 0, status |-> l.status]
            ELSE IF l.leaf # NULL /\ l.st.h[endnode].child = NULL
            THEN LET k == wTrie_collapse(l.st, l.parent, l.st.h[l.leaf].wc)
                 IN [st |-> k.st, ret |-> 1, status |-> k.status]
            ELSE [st |-> [l.st EXCEPT !.h[endnode].term = FALSE], ret |-> 1,
                  status |-> "ok"]

\* --------------------------------------------------------------- the state
NoCall == [op |-> "none", w |-> <<>>, n |-> 0, parent |-> NULL, sym |-> NUL,
           res |-> NULL, lsib |-> NULL, status |-> "ok"]

Init ==
    /\ heap = [a \in Addr |-> Blank]
    /\ live = {WT}
    /\ freed = {}
    /\ bufs = {}
    /\ errno = "0"
    /\ pre = [h |-> [a \in Addr |-> Blank], L |-> {WT}, F |-> {}, B |-> {},
              errno |-> "0", left |-> Cardinality(Addr)]
    /\ last = NoCall
    /\ nops = 0

\* the process goes on only after a call that returned with defined behaviour
Running == last.status = "ok" /\ nops < MaxOps

\* the state after a call: st is the memory it leaves, res what it returned
Return(st, status, call) ==
    /\ pre' = Cur
    /\ nops' = nops + 1
    /\ IF status = "ok"
       THEN /\ heap' = st.h /\ live' = st.L /\ freed' = st.F /\ bufs' = st.B
            /\ errno' = st.errno
            /\ last' = [call EXCEPT !.status = "ok"]
       ELSE /\ UNCHANGED <<heap, live, freed, bufs, errno>>
            /\ \E any \in Addr \cup {NULL} :
                 last' = [call EXCEPT !.status = status, !.res = any]

AddWord(w) ==
    /\ Running
    /\ \E r \in wTrie_addword(Cur, WT, w) :
         Return(r.st, r.status, [NoCall EXCEPT !.op = "addword", !.w = w, !.res = r.node])

AddNWord(w, n) ==
    /\ Running
    /\ \E r \in wTrie_addnword(Cur, WT, w, n) :
         Return(r.st, r.status,
                [NoCall EXCEPT !.op = "addnword", !.w = w, !.n = n, !.res = r.node])

FindWord(w) ==
    /\ Running
    /\ LET r == wTrie_findword(Cur, WT, w)
       IN Return(r.st, r.status, [NoCall EXCEPT !.op = "findword", !.w = w, !.res = r.node])

RmWord(w) ==
    /\ Running
    /\ LET r == wTrie_rmword(Cur, WT, w)
       IN Return(r.st, r.status, [NoCall EXCEPT !.op = "rmword", !.w = w, !.res = r.ret])

\* a call of wTrie_child that asks for the previous sibling (lsibling_p set,
\* *lsibling_p = NULL before the call)
FindChild(parent, wch) ==
    /\ Running
    /\ LET r == wTrie_child(Cur, parent, wch, NULL)
       IN Return(r.st, r.status,
                 [NoCall EXCEPT !.op = "child", !.parent = parent, !.sym = wch,
                                !.res = r.node, !.lsib = r.lsib])

Next ==
    \/ \E w \in Words : AddWord(w)
    \/ \E w \in Words : \E n \in 1..Len(w) : AddNWord(w, n)
    \/ \E w \in Words : FindWord(w)
    \/ \E w \in Words : RmWord(w)
    \/ \E parent \in live, wch \in Symbols : FindChild(parent, wch)

Spec == Init /\ [][Next]_vars

\* runs that never remove a word
NextInsert ==
    \/ \E w \in Words : AddWord(w)
    \/ \E w \in Words : \E n \in 1..Len(w) : AddNWord(w, n)
    \/ \E w \in Words : FindWord(w)
    \/ \E parent \in live, wch \in Symbols : FindChild(parent, wch)

SpecInsert == Init /\ [][NextInsert]_vars

\* --------------------------------------------- calls of the node functions
\* a payload the caller passes is a buffer of its own, not one a node owns
Spawn(strict, parent, wch, term, meta, meta_sz) ==
    /\ Running
    /\ meta \notin bufs
    /\ \E r \in wTrie_spawn(Cur, strict, parent, wch, term, meta, meta_sz) :
         Return(r.st, r.status,
                [NoCall EXCEPT !.op = IF strict THEN "spawn_strict" ELSE "spawn",
                               !.parent = parent, !.sym = wch, !.res = r.node])

Collapse(parent, wch) ==
    /\ Running
    /\ LET r == wTrie_collapse(Cur, parent, wch)
       IN Return(r.st, r.status,
                 [NoCall EXCEPT !.op = "collapse", !.parent = parent, !.sym = wch,
                                !.res = r.ret])

\* wTrie_purge returns nothing; parent records the node it was called on
Purge(wtr) ==
    /\ Running
    /\ LET r == wTrie_purge(Cur, wtr)
       IN Return(r.st, r.status, [NoCall EXCEPT !.op = "purge", !.parent = wtr])

\* parent records the node the check was called on
ROK(wtr) ==
    /\ Running
    /\ LET r == wTrie_rOK(Cur, wtr)
       IN Return(Cur, r.status, [NoCall EXCEPT !.op = "rOK", !.parent = wtr, !.res = r.val])

\* a call of wTrie_leaf with parent_p set (*parent_p = NULL before the call)
Leaf(w) ==
    /\ Running
    /\ LET r == wTrie_leaf(Cur, WT, w)
       IN Return(r.st, r.status,
                 [NoCall EXCEPT !.op = "leaf", !.w = w, !.res = r.leaf,
                                !.parent = r.parent])

\* a call of wTrie_findword_rel with parent_p and lsibling_p set; parent is
\* the value the caller left in *parent_p, *lsibling_p = NULL before the call
FindWordRel(w, parent) ==
    /\ Running
    /\ LET r == wTrie_findword_rel(Cur, WT, w, parent, NULL)
       IN Return(r.st, r.status,
                 [NoCall EXCEPT !.op = "findword_rel", !.w = w, !.res = r.node,
                                !.parent = r.parent, !.lsib = r.lsib])

\* wTrie_spawn called when calloc has no memory to give
SpawnNoMem(strict, parent, wch) ==
    /\ Running
    /\ \E r \in wTrie_spawn([Cur EXCEPT !.left = 0], strict, parent, wch, TRUE, NULL, 0) :
         Return(r.st, r.status,
                [NoCall EXCEPT !.op = "spawn_nomem", !.parent = parent, !.sym = wch,
                               !.res = r.node])

\* wTrie_addword called when calloc gives n more nodes and then no more
AddWordNoMem(w, n) ==
    /\ Running
    /\ \E r \in wTrie_addword([Cur EXCEPT !.left = n], WT, w) :
         Return(r.st, r.status,
                [NoCall EXCEPT !.op = "addword_nomem", !.w = w, !.n = n, !.res = r.node])

\* the insertions called on any root and any string, the null pointer and
\* the empty string included; parent records the root argument
AddWordArgs(wtr, w) ==
    /\ Running
    /\ \E r \in wTrie_addword(Cur, wtr, w) :
         Return(r.st, r.status,
                [NoCall EXCEPT !.op = "addword_args", !.parent = wtr, !.w = w,
                               !.res = r.node])

AddNWordArgs(wtr, w, n) ==
    /\ Running
    /\ \E r \in wTrie_addnword(Cur, wtr, w, n) :
         Return(r.st, r.status,
                [NoCall EXCEPT !.op = "addnword_args", !.parent = wtr, !.w = w,
                               !.n = n, !.res = r.node])

\* the trees the insertions, wTrie_spawn and the removal build
NextTree ==
    \/ /\ nops < MaxTreeCalls
       /\ \E w \in Words : AddWord(w)
    \/ /\ nops < MaxTreeCalls
       /\ \E w \in Words : \E n \in 1..Len(w) : AddNWord(w, n)
    \/ /\ nops < MaxTreeCalls
       /\ \E w \in Words : RmWord(w)
    \/ /\ nops < MaxTreeCalls
       /\ \E strict \in BOOLEAN, parent \in live, wch \in Symbols, term \in BOOLEAN,
             meta \in Metas, meta_sz \in MetaSizes :
               Spawn(strict, parent, wch, term, meta, meta_sz)

SpecTree == Init /\ [][NextTree]_vars

\* short runs of the node functions alone
NextSpawn ==
    \/ /\ nops < MaxCalls
       /\ \E strict \in BOOLEAN, parent \in live, wch \in Symbols, term \in BOOLEAN,
             meta \in Metas, meta_sz \in MetaSizes :
               Spawn(strict, parent, wch, term, meta, meta_sz)
    \/ /\ nops < MaxCalls
       /\ \E parent \in live, wch \in Symbols : Collapse(parent, wch)

SpecSpawn == Init /\ [][NextSpawn]_vars

\* the trees of NextTree and their destruction
NextPurge ==
    \/ /\ nops < MaxTreeCalls
       /\ \E w \in Words : AddWord(w)
    \/ /\ nops < MaxTreeCalls
       /\ \E w \in Words : \E n \in 1..Len(w) : AddNWord(w, n)
    \/ /\ nops < MaxTreeCalls
       /\ \E w \in Words : RmWord(w)
    \/ /\ nops < MaxTreeCalls
       /\ \E strict \in BOOLEAN, parent \in live, wch \in Symbols, term \in BOOLEAN,
             meta \in Metas, meta_sz \in MetaSizes :
               Spawn(strict, parent, wch, term, meta, meta_sz)
    \/ /\ nops < MaxTreeCalls
       /\ \E wtr \in {WT, NULL} : Purge(wtr)

SpecPurge == Init /\ [][NextPurge]_vars

\* short runs of the insertions on every kind of argument
NextArgs ==
    \/ /\ nops < MaxCalls
       /\ \E wtr \in {WT, NULL}, w \in Words \cup {<<>>, NoString} : AddWordArgs(wtr, w)
    \/ /\ nops < MaxCalls
       /\ \E wtr \in {WT, NULL}, w \in Words \cup {<<>>, NoString}, n \in 0..MaxLen :
             AddNWordArgs(wtr, w, n)

SpecArgs == Init /\ [][NextArgs]_vars

\* short runs of the word functions and the consistency check
NextROK ==
    \/ /\ nops < MaxCalls
       /\ \E w \in Words : AddWord(w)
    \/ /\ nops < MaxCalls
       /\ \E w \in Words : RmWord(w)
    \/ /\ nops < MaxCalls
       /\ \E wtr \in live \cup {NULL} : ROK(wtr)

SpecROK == Init /\ [][NextROK]_vars

\* the word functions and wTrie_leaf
NextLeaf ==
    \/ \E w \in Words : AddWord(w)
    \/ \E w \in Words : RmWord(w)
    \/ \E w \in Words : Leaf(w)

SpecLeaf == Init /\ [][NextLeaf]_vars

\* insertions with and without memory
NextNoMem ==
    \/ \E w \in Words : AddWord(w)
    \/ \E strict \in BOOLEAN, parent \in live, wch \in Symbols :
          SpawnNoMem(strict, parent, wch)
    \/ \E w \in Words : \E n \in 0..(Len(w) - 1) : AddWordNoMem(w, n)

SpecNoMem == Init /\ [][NextNoMem]_vars

\* ------------------------------------------------ calls in two steps
\* the body of a call has run on the memory st: with status "ok" it has
\* reached its return statement, with any other status (undefined behaviour,
\* a loop that does not end) it never reaches one
Body(st, status, call) ==
    /\ pre' = Cur
    /\ nops' = nops + 1
    /\ IF status = "ok"
       THEN /\ heap' = st.h /\ live' = st.L /\ freed' = st.F /\ bufs' = st.B
            /\ errno' = st.errno
            /\ last' = [call EXCEPT !.status = "returning"]
       ELSE /\ UNCHANGED <<heap, live, freed, bufs, errno>>
            /\ last' = [call EXCEPT !.status = status]

BodyFindWord(w) ==
    /\ Running
    /\ LET r == wTrie_findword(Cur, WT, w)
       IN Body(r.st, r.status, [NoCall EXCEPT !.op = "findword", !.w = w, !.res = r.node])

BodyLeaf(w) ==
    /\ Running
    /\ LET r == wTrie_leaf(Cur, WT, w)
       IN Body(r.st, r.status,
               [NoCall EXCEPT !.op = "leaf", !.w = w, !.res = r.leaf, !.parent = r.parent])

BodyRmWord(w) ==
    /\ Running
    /\ LET r == wTrie_rmword(Cur, WT, w)
       IN Body(r.st, r.status, [NoCall EXCEPT !.op = "rmword", !.w = w, !.res = r.ret])

BodyPurge ==
    /\ Running
    /\ LET r == wTrie_purge(Cur, WT)
       IN Body(r.st, r.status, [NoCall EXCEPT !.op = "purge", !.parent = WT])

\* the return statement: the caller has the result
Ret ==
    /\ last.status = "returning"
    /\ last' = [last EXCEPT !.status = "ok"]
    /\ UNCHANGED <<heap, live, freed, bufs, errno, pre, nops>>

\* the tree is one add_word, add_word_prefix and remove_word built: purge,
\* which frees it, has not run
Built == last.op # "purge"

NextTerm ==
    \/ /\ Built /\ nops < MaxCalls
       /\ \E w \in Words : AddWord(w)
    \/ /\ Built /\ nops < MaxCalls
       /\ \E w \in Words : \E n \in 1..Len(w) : AddNWord(w, n)
    \/ /\ Built /\ nops < MaxCalls
       /\ \E w \in Words : BodyFindWord(w)
    \/ /\ Built /\ nops < MaxCalls
       /\ \E w \in Words : BodyLeaf(w)
    \/ /\ Built /\ nops < MaxCalls
       /\ \E w \in Words : BodyRmWord(w)
    \/ /\ Built /\ nops < MaxCalls
       /\ BodyPurge
    \/ Ret

\* a call that has reached its return statement returns
SpecTerm == Init /\ [][NextTerm]_vars /\ WF_vars(Ret)

\* the word functions and wTrie_findword_rel
NextRel ==
    \/ \E w \in Words : AddWord(w)
    \/ \E w \in Words : RmWord(w)
    \/ \E w \in Words, parent \in {NULL, WT} : FindWordRel(w, parent)

SpecRel == Init /\ [][NextRel]_vars

\* ================================================================= claims
\* what the claims speak of, read off the links of the heap and not off the
\* functions of wtrie.h

\* the pointers of the sibling chain that starts at n, a pointer to a node
\* that is not live included (the chain cannot be followed past it)
RECURSIVE Chain(_, _, _)
Chain(st, n, fuel) ==
    IF n = NULL \/ fuel = 0 THEN <<>>
    ELSE IF n \notin st.L THEN <<n>>
    ELSE <<n>> \o Chain(st, st.h[n].sibling, fuel - 1)

ChildList(st, p) == Chain(st, st.h[p].child, Cardinality(Addr) + 1)

\* the positions of the child list of p that hold a live node with symbol wch
Matches(st, p, wch) ==
    {i \in 1..Len(ChildList(st, p)) :
        /\ ChildList(st, p)[i] \in st.L
        /\ st.h[ChildList(st, p)[i]].wc = wch}

\* every pointer of the child list of p is to a live node
Sound(st, p) == \A i \in 1..Len(ChildList(st, p)) : ChildList(st, p)[i] \in st.L

\* the node reached from n by the child links for the characters of w, NULL
\* when a character has no child; defined on sound child lists only
RECURSIVE Walk(_, _, _)
Walk(st, n, w) ==
    IF w = <<>> THEN n
    ELSE IF Matches(st, n, Head(w)) = {} THEN NULL
    ELSE Walk(st, ChildList(st, n)[Min(Matches(st, n, Head(w)))], Tail(w))

\* the nodes on the path of w, the root left out
PathNodes(st, w) == {Walk(st, WT, SubSeq(w, 1, k)) : k \in 1..Len(w)} \ {NULL}

\* find_word finds w in the memory st
Found(st, w) ==
    LET f == wTrie_findword(st, WT, w) IN f.status = "ok" /\ f.node # NULL

Removed == last.op = "rmword" /\ last.status = "ok" /\ last.res = 1

Without(seq, x) == SelectSeq(seq, LAMBDA y : y # x)

\* every child list of a live node holds pointers to live nodes only
AllSound(st) == \A n \in st.L : Sound(st, n)

\* w is the only word of st, and st holds the nodes of its path and no other
OnlyWord(st, w) ==
    /\ AllSound(st)
    /\ Found(st, w)
    /\ \A v \in Words \ {w} : ~Found(st, v)
    /\ st.L = {WT} \cup PathNodes(st, w)

\* C1: after remove_word(root, w) has succeeded, every other word that
\* find_word found before the call is still found.
C1_RemovalIsolation ==
    Removed => \A v \in Words \ {last.w} : Found(pre, v) => Found(Cur, v)

\* C2: in a run of add_word / add_word_prefix calls, an insertion sets the
\* terminal flag of the node its word ends at, changes the terminal flag of
\* no other node, and every word found before the call is still found.
C2_InsertKeepsTerminals ==
    (last.op \in {"addword", "addnword"} /\ last.status = "ok" /\ last.res # NULL) =>
        /\ heap[last.res].term
        /\ \A n \in pre.L \ {last.res} : heap[n].term = pre.h[n].term
        /\ \A v \in Words : Found(pre, v) => Found(Cur, v)

\* C3: add_word(root, s) returns a node, and find_word(root, s) right after
\* it returns that same node, which is terminal and carries the last
\* character of s.
C3_InsertFind ==
    last.op = "addword" =>
        /\ last.status = "ok"
        /\ last.res # NULL
        /\ LET f == wTrie_findword(Cur, WT, last.w) IN
             /\ f.status = "ok"
             /\ f.node = last.res
             /\ heap[f.node].term
             /\ heap[f.node].wc = last.w[Len(last.w)]

\* C4: after remove_word(root, s) has succeeded, find_word(root, s) reads
\* live nodes only and returns absence with NoSuchWord.
C4_RemoveFind ==
    Removed =>
        LET f == wTrie_findword(Cur, WT, last.w) IN
          /\ f.status = "ok"
          /\ f.node = NULL
          /\ f.st.errno = "I_WTRIE_NOSUCHWORD"

\* C5: when w is the only word of the tree, remove_word(root, w) discards
\* exactly the |w| nodes of w's path and leaves the root with no child link.
C5_PrivateChain ==
    (Removed /\ OnlyWord(pre, last.w)) =>
        /\ pre.L \ live = PathNodes(pre, last.w)
        /\ Cardinality(pre.L \ live) = Len(last.w)
        /\ heap[WT].child = NULL

\* C6: when remove_word cuts a chain whose head h is a child of p, the child
\* list of p afterwards is its child list before with h taken out and the
\* other children in the same order.
C6_ChildListRelink ==
    (Removed /\ AllSound(pre) /\ pre.L # live) =>
        LET l == wTrie_leaf(pre, WT, last.w)
        IN ChildList(Cur, l.parent) = Without(ChildList(pre, l.parent), l.leaf)

\* the terminal node of w in st when find_word finds w and that node has a
\* live first child, NULL otherwise
SharedTerminal(st, w) ==
    LET f == wTrie_findword(st, WT, w)
    IN IF /\ f.status = "ok"
          /\ f.node # NULL
          /\ st.h[f.node].child \in st.L
       THEN f.node ELSE NULL

Extends(v, w) == Len(v) > Len(w) /\ SubSeq(v, 1, Len(w)) = w

\* C7: remove_word(root, w) of a stored word w whose terminal node has a
\* child succeeds and changes nothing but the terminal flag of that node,
\* which it clears: no node is discarded, no link changes, and every longer
\* word through that node is still found.
C7_SharedTerminal ==
    (last.op = "rmword" /\ SharedTerminal(pre, last.w) # NULL) =>
        /\ last.status = "ok"
        /\ last.res = 1
        /\ live = pre.L
        /\ freed = pre.F
        /\ heap = [pre.h EXCEPT ![SharedTerminal(pre, last.w)].term = FALSE]
        /\ \A v \in Words : (Extends(v, last.w) /\ Found(pre, v)) => Found(Cur, v)

\* C8: remove_word of a word that find_word does not find (never inserted,
\* a non-terminal prefix, or removed before) returns 0 with NoSuchWord and
\* leaves every node, link, flag and payload as it was.
C8_RemoveAbsent ==
    (last.op = "rmword" /\ ~Found(pre, last.w)) =>
        /\ last.status = "ok"
        /\ last.res = 0
        /\ errno = "E_WTRIE_NOSUCHWORD"
        /\ heap = pre.h /\ live = pre.L /\ freed = pre.F

\* C9: find_child returns the first child of parent with the symbol (NULL
\* if there is none) and reports as previous sibling the child right before
\* the match, NULL exactly when the match is the head of the list.
C9_FindChild ==
    (last.op = "child" /\ last.status = "ok" /\ Sound(pre, last.parent)) =>
        LET cl == ChildList(pre, last.parent)
            m == Matches(pre, last.parent, last.sym)
        IN IF m = {} THEN last.res = NULL
           ELSE /\ last.res = cl[Min(m)]
                /\ last.lsib = (IF Min(m) = 1 THEN NULL ELSE cl[Min(m) - 1])

\* C10: find_word(root, s) returns the node that the child links lead to
\* for the characters of s when that node is terminal, returns absence with
\* NoSuchWord otherwise, and leaves the tree as it was.
C10_FindWord ==
    last.op = "findword" =>
        /\ last.status = "ok"
        /\ heap = pre.h /\ live = pre.L /\ freed = pre.F
        /\ LET n == Walk(pre, WT, last.w) IN
             IF n # NULL /\ pre.h[n].term
             THEN last.res = n
             ELSE last.res = NULL /\ errno = "I_WTRIE_NOSUCHWORD"

\* C11: in every state the runs of add_word, add_word_prefix, spawn and
\* remove_word reach, no two live children in the child list of a live node
\* carry the same symbol.
C11_SiblingsUnique ==
    \A p \in live : \A wch \in Symbols : Cardinality(Matches(Cur, p, wch)) <= 1

\* C12: a strict spawn under a parent that has a child with the symbol
\* returns absence with DuplicateChild and changes no node, link, flag or
\* payload.
C12_StrictDuplicate ==
    (last.op = "spawn_strict" /\ Matches(pre, last.parent, last.sym) # {}) =>
        /\ last.status = "ok"
        /\ last.res = NULL
        /\ errno = "E_WTRIE_DUPCHILD"
        /\ heap = pre.h /\ live = pre.L /\ freed = pre.F

\* C12 witness: a strict spawn of a symbol whose child is not the head of a
\* child list of two was refused.
C12_Witness ==
    /\ last.op = "spawn_strict"
    /\ Len(ChildList(pre, last.parent)) = 2
    /\ Matches(pre, last.parent, last.sym) = {2}
    /\ last.res = NULL
    /\ errno = "E_WTRIE_DUPCHILD"

\* C13: purge(root) discards every node that was live, each once, and
\* leaves no node live.
C13_PurgeComplete ==
    (last.op = "purge" /\ last.parent = WT) =>
        /\ last.status = "ok"
        /\ live = {}
        /\ pre.L \subseteq freed

\* C14: a non-strict spawn under a parent that has a child with the symbol
\* returns that child, allocates and frees nothing, leaves the parent's child
\* list and the child's links and symbol as they were, and changes no other
\* node: only the terminal flag and the payload of the child may differ.
C14_Overwrite ==
    (last.op = "spawn" /\ Matches(pre, last.parent, last.sym) # {}) =>
        LET c == ChildList(pre, last.parent)[Min(Matches(pre, last.parent, last.sym))]
        IN /\ last.status = "ok"
           /\ last.res = c
           /\ live = pre.L /\ freed = pre.F
           /\ ChildList(Cur, last.parent) = ChildList(pre, last.parent)
           /\ heap[c].child = pre.h[c].child
           /\ heap[c].sibling = pre.h[c].sibling
           /\ heap[c].wc = pre.h[c].wc
           /\ \A a \in Addr \ {c} : heap[a] = pre.h[a]

\* C14 witness: a non-strict spawn has changed the flag and the payload of
\* a child that has a child and a sibling of its own.
C14_Witness ==
    /\ last.op = "spawn"
    /\ Matches(pre, last.parent, last.sym) # {}
    /\ last.res \in live
    /\ heap[last.res].term # pre.h[last.res].term
    /\ heap[last.res].meta # pre.h[last.res].meta
    /\ heap[last.res].sibling # NULL

\* the pointers the nodes of S hold, to live nodes or not
Targets(st, S) ==
    {st.h[a].child : a \in S \cap st.L} \cup {st.h[a].sibling : a \in S \cap st.L}

\* the addresses the links lead to from the nodes of S
RECURSIVE ReachFrom(_, _)
ReachFrom(st, S) ==
    LET T == S \cup (Targets(st, S) \ {NULL})
    IN IF T = S THEN S ELSE ReachFrom(st, T)

\* the number of links of live nodes that point to n
InDegree(st, n) ==
    Cardinality({a \in st.L : st.h[a].child = n})
        + Cardinality({a \in st.L : st.h[a].sibling = n})

\* C15: in every state the runs of add_word, add_word_prefix, spawn and
\* remove_word reach, the live nodes form a tree under the root: no link
\* points to the root, exactly one link points to every other live node, and
\* every live node is reached from the root.
C15_Forest ==
    /\ InDegree(Cur, WT) = 0
    /\ \A n \in live \ {WT} : InDegree(Cur, n) = 1
    /\ live \subseteq ReachFrom(Cur, {WT})

\* the state is as it was before the call
Unchanged == heap = pre.h /\ live = pre.L /\ freed = pre.F

\* C16: add_word and add_word_prefix called with no root or no sequence
\* return absence with NullTarget; called with a root and an empty sequence
\* (add_word_prefix also with a count below 1) they return absence with
\* EmptyInput; either way no node is created and the tree is as it was.
C16_InsertPreconditions ==
    (last.op \in {"addword_args", "addnword_args"}) =>
        /\ (last.parent = NULL \/ last.w = NoString) =>
              /\ last.status = "ok" /\ last.res = NULL
              /\ errno = "E_WTRIE_NULLPOINTER"
              /\ Unchanged
        /\ (/\ last.parent # NULL /\ last.w # NoString
            /\ (last.w = <<>> \/ (last.op = "addnword_args" /\ last.n < 1))) =>
              /\ last.status = "ok" /\ last.res = NULL
              /\ errno = "E_WTRIE_EMPTYWORD"
              /\ Unchanged

\* C16 witness: add_word_prefix of a word with the count 0 was refused on a
\* tree that holds words.
C16_Witness ==
    /\ last.op = "addnword_args"
    /\ last.parent = WT /\ last.w \in Words /\ last.n = 0
    /\ errno = "E_WTRIE_EMPTYWORD"
    /\ live # {WT}

\* the sub-reference x of the checked node passes: it is absent or the check
\* returns 1 on it
Passes(st, x) == x = NULL \/ wTrie_rOK(st, x) = [val |-> 1, status |-> "ok"]

\* C17 (as stated): the check returns 1 exactly when the reference is
\* absent or its sibling subtree and its child subtree both pass; so it
\* returns 1 on the null pointer.
C17_CheckAbsentPasses ==
    (last.op = "rOK" /\ last.status = "ok") =>
        (last.res = 1 <=>
            \/ last.parent = NULL
            \/ /\ Passes(pre, pre.h[last.parent].sibling)
               /\ Passes(pre, pre.h[last.parent].child))

\* C17 (amended): the check returns 1 exactly when the reference is present
\* and its sibling subtree and its child subtree, where present, both pass;
\* it returns 0 on the null pointer.
C17_Check ==
    (last.op = "rOK" /\ last.status = "ok") =>
        /\ last.res \in {0, 1}
        /\ last.res = 1 <=>
              /\ last.parent # NULL
              /\ Passes(pre, pre.h[last.parent].sibling)
              /\ Passes(pre, pre.h[last.parent].child)
        /\ Unchanged

\* C17 witness: the check has passed on a node with a sibling and a child.
C17_Witness ==
    /\ last.op = "rOK" /\ last.status = "ok" /\ last.res = 1
    /\ last.parent \in live
    /\ heap[last.parent].sibling \in live
    /\ heap[last.parent].child \in live

\* C18: purge called on a reference for which the consistency check fails,
\* the null pointer included, reports CorruptStructure and reads, writes and
\* discards nothing.
C18_PurgeGuard ==
    (last.op = "purge" /\ wTrie_rOK(pre, last.parent) = [val |-> 0, status |-> "ok"]) =>
        /\ last.status = "ok"
        /\ errno = "E_WTRIE_CORRUPT"
        /\ heap = pre.h /\ live = pre.L /\ freed = pre.F

\* C19: after every call that returned, the addresses reached from the root
\* by the links are exactly the live nodes: no link of a live node points to
\* a discarded node and no live node is cut off from the root.
C19_HeapConsistent ==
    last.status = "ok" => ReachFrom(Cur, {WT}) = live

\* the node of the k-th character of w on its path in st
PathNode(st, w, k) == Walk(st, WT, SubSeq(w, 1, k))

\* C20: when private_chain(root, w) reports a head h for a stored word w,
\* h is on the path of w and no node from h to the terminal node of w is on
\* the path of another stored word: none but the last is terminal and none
\* has more than one child. When the terminal node of w has a child, no head
\* and no parent are reported.
C20_ChainExclusive ==
    (last.op = "leaf" /\ last.status = "ok" /\ AllSound(pre) /\ Found(pre, last.w)) =>
        LET w == last.w
            e == PathNode(pre, w, Len(w))
        IN /\ pre.h[e].child # NULL => (last.res = NULL /\ last.parent = NULL)
           /\ last.res # NULL =>
                \E k \in 1..Len(w) :
                    /\ PathNode(pre, w, k) = last.res
                    /\ \A j \in k..Len(w) :
                         /\ j < Len(w) => ~pre.h[PathNode(pre, w, j)].term
                         /\ Len(ChildList(pre, PathNode(pre, w, j))) <= 1
                         /\ \A v \in Words \ {w} :
                              Found(pre, v) => PathNode(pre, w, j) \notin PathNodes(pre, v)

\* C21: in every state the runs of spawn, add_word, add_word_prefix,
\* remove_word and purge reach, every payload buffer that a node was given
\* and that was not freed is the payload of a live node.
C21_NoPayloadLost ==
    \A b \in bufs : \E n \in live : heap[n].meta = b

\* the node of st whose child list holds the terminal node of w
ParentOf(st, w) == IF Len(w) = 1 THEN WT ELSE PathNode(st, w, Len(w) - 1)

\* C22: for a stored word w, find_word_with_relatives returns the terminal
\* node find_word returns, reports as parent the node whose child list holds
\* it (the root when w has one character) and as previous sibling the node
\* right before it in that list, NULL exactly when it is the head.
C22_FindWordRel ==
    (last.op = "findword_rel" /\ AllSound(pre) /\ Found(pre, last.w)) =>
        LET e == wTrie_findword(pre, WT, last.w).node
            p == ParentOf(pre, last.w)
            cl == ChildList(pre, p)
            k == Min({i \in 1..Len(cl) : cl[i] = e})
        IN /\ last.status = "ok"
           /\ last.res = e
           /\ last.parent = p
           /\ last.lsib = IF k = 1 THEN NULL ELSE cl[k - 1]

\* the nodes add_word has to create for w in st
NewNodes(st, w) == Cardinality({k \in 1..Len(w) : PathNode(st, w, k) = NULL})

\* the nodes of st are still live, with their symbols, and the child list of
\* each holds the children it held, in their order
StillLinked(st) ==
    /\ st.L \subseteq live
    /\ \A n \in st.L :
         /\ heap[n].wc = st.h[n].wc
         /\ SelectSeq(ChildList(Cur, n), LAMBDA x : x \in st.L) = ChildList(st, n)

\* C23: a spawn that has to allocate and an add_word that has to allocate
\* more nodes than calloc gives return absence (spawn with SpawnFailed)
\* without reading or writing through the null pointer, and every node
\* linked before is still live and linked as it was, whether the parent had
\* children or not.
C23_AllocFailureContained ==
    /\ (/\ last.op = "spawn_nomem"
        /\ Sound(pre, last.parent)
        /\ Matches(pre, last.parent, last.sym) = {}) =>
          /\ last.status = "ok"
          /\ last.res = NULL
          /\ errno = "E_WTRIE_SPAWNFAILED"
          /\ Unchanged
    /\ (/\ last.op = "addword_nomem"
        /\ AllSound(pre)
        /\ NewNodes(pre, last.w) > last.n) =>
          /\ last.status = "ok"
          /\ last.res = NULL
          /\ StillLinked(pre)

\* C24: on the trees add_word, add_word_prefix and remove_word build, every
\* call of find_word, private_chain, remove_word and purge that has started
\* returns: its body reaches the return statement and the caller gets the
\* result.
C24_Termination ==
    (last.op \in {"findword", "leaf", "rmword", "purge"} /\ last.status # "ok")
        ~> (last.status = "ok")

============================================================================
